---------------------------- MODULE Spec2Model ----------------------------
(***************************************************************************)
(* State-machine model of the PomodoroYouTubePlayer component              *)
(* (src/src/App.tsx): the countdown (work / break / complete), its         *)
(* wall-clock anchoring, and the two-way synchronisation with the embedded *)
(* YouTube player.                                                         *)
(*                                                                         *)
(* One action is one event-loop task: a handler runs to completion, React  *)
(* batches its state updates into one render, and the effects whose        *)
(* dependencies changed run (cleanups first, then bodies in source order)  *)
(* before the next task.  Time is in milliseconds, as Date.now() gives it. *)
(***************************************************************************)
EXTENDS Integers, Sequences, FiniteSets, TLC

VARIABLES
    \* React state (useState)
    workMinutes, breakMinutes, totalPomodoros, currentPomodoro,
    videoId, isRunning, isWorking, timeLeft, timerComplete, apiLoaded,
    videoHistory,     \* ids of the history items, newest first
    \* refs (useRef)
    playerRef, programmaticChangeRef, isRunningRef, intervalRef,
    startTimeRef, endTimeRef,
    \* browser and player
    now,              \* Date.now()
    activeIntervals,  \* number of intervals the browser still runs
    intervalDue,      \* next firing time of the interval in intervalRef
    timeouts,         \* due times of the pending guard-reset timeouts
    playerState,      \* state of the embedded player
    events,           \* onStateChange notifications in flight (FIFO)
    fetching,         \* per video id, the addToHistory calls awaiting fetchVideoData
    \* observers
    issued,           \* commands the last task sent to the player
    delivered,        \* notification the last task handled (NoEvent if none)
    alerted,          \* the last task called alert()
    tickLate,         \* ms by which the last task, an expiring tick, passed endTimeRef
    workPeriods,      \* Work periods begun in this session
    breakPeriods      \* Break periods begun in this session

vars == << workMinutes, breakMinutes, totalPomodoros, currentPomodoro,
           videoId, isRunning, isWorking, timeLeft, timerComplete, apiLoaded,
           playerRef, programmaticChangeRef, isRunningRef, intervalRef,
           startTimeRef, endTimeRef, now, activeIntervals, intervalDue,
           timeouts, playerState, events, issued, delivered, tickLate,
           workPeriods,
           breakPeriods, videoHistory, fetching, alerted >>

---------------------------------------------------------------------------
(* Program constants *)

MsPerSecond    == 1000
SecondsPerMinute == 60
TickMs         == 1000
GuardDelayMs   == 100
DefaultWorkMinutes  == 25
DefaultBreakMinutes == 5
DefaultPomodoros    == 4

\* YT.PlayerState codes carried by onStateChange
YtEnded   == 0
YtPlaying == 1
YtPaused  == 2
NoEvent   == YtEnded - 1

(* Bounds of the exploration *)

MaxNow     == 125000       \* the wall clock is explored up to this time
MaxFineNow == 150          \* ... and up to this time in steps of half a guard delay
MaxWallNow == 62000        \* ... and up to this time where the clock may be set back
BigStep    == 30500        \* a long stretch without any task, in ms
MaxMinutes == 1            \* minute values typed into the settings: 1..MaxMinutes
MaxCycles  == 2            \* pomodoro counts typed into the settings: 2..MaxCycles
MaxEvents  == 1            \* player notifications in flight
MaxNaturalMinutes == 2     \* undisturbed sessions: durations 1..MaxNaturalMinutes
MaxNaturalCycles  == 3     \* undisturbed sessions: 1..MaxNaturalCycles pomodoros
MaxTyped   == 61           \* minutes typed into a duration field above its max
MaxFetches == 2            \* addToHistory calls awaiting their fetch at one time
MaxTypedCount == 21        \* a pomodoro count typed above every declared range
TypedBelow == 1            \* numbers typed below zero: down to -TypedBelow

CoarseSteps == {BigStep}

MinuteInputs == 1..MaxMinutes
CycleInputs  == 2..MaxCycles

\* Numbers typed or pasted into a settings field: min and max of the field do
\* not restrict what onChange receives
TypedNumbers == ((0 - TypedBelow)..1) \cup {MaxTyped}

TypedCounts == ((0 - TypedBelow)..1) \cup {MaxTypedCount}


---------------------------------------------------------------------------
(* Arithmetic of the code *)

\* Math.ceil(a / b) for integers a and b > 0
Ceil(a, b) == (a + b - 1) \div b

Max(a, b) == IF a >= b THEN a ELSE b

---------------------------------------------------------------------------
(* The React state as one record, and everything else a task can change *)

State ==
    [ workMinutes |-> workMinutes, breakMinutes |-> breakMinutes,
      totalPomodoros |-> totalPomodoros, currentPomodoro |-> currentPomodoro,
      videoId |-> videoId, isRunning |-> isRunning, isWorking |-> isWorking,
      timeLeft |-> timeLeft, timerComplete |-> timerComplete,
      apiLoaded |-> apiLoaded, videoHistory |-> videoHistory,
      \* observers: the periods begun, counted where the code begins one
      workPeriods |-> workPeriods, breakPeriods |-> breakPeriods ]

World ==
    [ playerRef |-> playerRef, programmaticChangeRef |-> programmaticChangeRef,
      isRunningRef |-> isRunningRef, intervalRef |-> intervalRef,
      startTimeRef |-> startTimeRef, endTimeRef |-> endTimeRef,
      activeIntervals |-> activeIntervals, intervalDue |-> intervalDue,
      timeouts |-> timeouts, playerState |-> playerState, events |-> events,
      fetching |-> fetching,
      issued |-> << >>, delivered |-> NoEvent, alerted |-> FALSE ]

---------------------------------------------------------------------------
(* The embedded player: the commands of the YouTubePlayer interface.  A     *)
(* command that changes the player's state makes the player emit the        *)
(* matching onStateChange notification, delivered later as its own task.    *)

PlayVideo(w) ==
    [w EXCEPT !.playerState = "playing",
              !.events = IF w.playerState = "playing" THEN @ ELSE Append(@, YtPlaying),
              !.issued = Append(@, "play")]

PauseVideo(w) ==
    [w EXCEPT !.playerState = IF @ = "playing" THEN "paused" ELSE @,
              !.events = IF w.playerState = "playing" THEN Append(@, YtPaused) ELSE @,
              !.issued = Append(@, "pause")]

\* loadVideoById loads the video and starts playing it
LoadVideoById(w) ==
    [w EXCEPT !.playerState = "playing",
              !.events = Append(@, YtPlaying),
              !.issued = Append(@, "load")]

\* new YT.Player(..., {playerVars: {autoplay}}): plays at once with autoplay 1,
\* otherwise waits cued
NewPlayer(autoplay, w) ==
    [w EXCEPT !.playerRef = TRUE,
              !.playerState = IF autoplay THEN "playing" ELSE "cued",
              !.events = IF autoplay THEN Append(@, YtPlaying) ELSE @]

---------------------------------------------------------------------------
(* Effects.  Each takes the state ns of the new render and the world w as   *)
(* the task and the earlier effects left it.                                *)

\* useEffect(() => { isRunningRef.current = isRunning }, [isRunning])
SyncRunningRefEffect(ns, w) ==
    [w EXCEPT !.isRunningRef = ns.isRunning]

\* Initialize or update YouTube player when video ID changes
InitPlayerEffect(ns, w) ==
    IF ns.apiLoaded /\ ns.videoId # ""
    THEN IF w.playerRef
         THEN LoadVideoById(w)
         ELSE NewPlayer(ns.isWorking /\ ns.isRunning, w)
    ELSE w

\* Mutant: the video plays whenever the timer runs, Break included
ShouldPlayWhenRunning(ns) == ns.isRunning

\* shouldPlay of the playback effect
ShouldPlay(ns) == ns.isWorking /\ ns.isRunning

\* Mutant: the guard is armed but its timeout is never scheduled
ControlPlaybackNoTimeout(ns, w) ==
    IF w.playerRef
    THEN LET armed == [w EXCEPT !.programmaticChangeRef = TRUE]
         IN  IF ShouldPlay(ns) THEN PlayVideo(armed) ELSE PauseVideo(armed)
    ELSE w

\* Control video playback based on timer state
ControlPlaybackEffect(ns, w) ==
    IF w.playerRef
    THEN LET armed == [w EXCEPT !.programmaticChangeRef = TRUE]
             cmd   == IF ShouldPlay(ns) THEN PlayVideo(armed) ELSE PauseVideo(armed)
         IN  [cmd EXCEPT !.timeouts = @ \cup {now + GuardDelayMs}]
    ELSE w

\* Mutant: the cleanup forgets the handle without clearing the interval
TimerEffectCleanupLeaks(w) ==
    [w EXCEPT !.intervalRef = 0]

\* cleanup of the timer effect
TimerEffectCleanup(w) ==
    IF w.intervalRef # 0
    THEN [w EXCEPT !.intervalRef = 0, !.activeIntervals = @ - 1]
    ELSE w

\* Mutant: the end of the period is anchored once and kept over a pause
TimerEffectKeepsAnchor(ns, w) ==
    IF ns.isRunning /\ ~ns.timerComplete
    THEN LET anchored ==
                 IF w.intervalRef = 0 /\ w.endTimeRef <= w.startTimeRef
                 THEN [w EXCEPT !.startTimeRef = now,
                                !.endTimeRef = now + ns.timeLeft * MsPerSecond]
                 ELSE w
         IN  [anchored EXCEPT !.intervalRef = 1,
                              !.activeIntervals = @ + 1,
                              !.intervalDue = now + TickMs]
    ELSE w

\* body of the timer effect: anchor, then start the 1 Hz interval
TimerEffect(ns, w) ==
    IF ns.isRunning /\ ~ns.timerComplete
    THEN LET anchored ==
                 IF w.intervalRef = 0
                 THEN [w EXCEPT !.startTimeRef = now,
                                !.endTimeRef = now + ns.timeLeft * MsPerSecond]
                 ELSE w
         IN  [anchored EXCEPT !.intervalRef = 1,
                              !.activeIntervals = @ + 1,
                              !.intervalDue = now + TickMs]
    ELSE w

RunningDepChanged(ns) == ns.isRunning # isRunning

PlayerDepsChanged(ns) == ns.apiLoaded # apiLoaded \/ ns.videoId # videoId

ControlDepsChanged(ns) == ns.isWorking # isWorking \/ ns.isRunning # isRunning

\* Mutant: the timer effect has no dependency array and runs on every render
TimerDepsAlways(ns) == TRUE

TimerDepsChanged(ns) ==
    \/ ns.isRunning # isRunning
    \/ ns.isWorking # isWorking
    \/ ns.breakMinutes # breakMinutes
    \/ ns.workMinutes # workMinutes
    \/ ns.currentPomodoro # currentPomodoro
    \/ ns.totalPomodoros # totalPomodoros
    \/ ns.timerComplete # timerComplete

\* The world after the render of ns: cleanups of the changed effects, then
\* their bodies in source order
Effects(ns, w) ==
    LET w0 == IF TimerDepsChanged(ns) THEN TimerEffectCleanup(w) ELSE w
        w1 == IF RunningDepChanged(ns) THEN SyncRunningRefEffect(ns, w0) ELSE w0
        w2 == IF PlayerDepsChanged(ns) THEN InitPlayerEffect(ns, w1) ELSE w1
        w3 == IF ControlDepsChanged(ns) THEN ControlPlaybackEffect(ns, w2) ELSE w2
    IN  IF TimerDepsChanged(ns) THEN TimerEffect(ns, w3) ELSE w3

\* One task: the handler produced state ns and world w; render and run effects
Task(late, ns, w) ==
    LET f == Effects(ns, w)
    IN  /\ workMinutes' = ns.workMinutes
        /\ breakMinutes' = ns.breakMinutes
        /\ totalPomodoros' = ns.totalPomodoros
        /\ currentPomodoro' = ns.currentPomodoro
        /\ videoId' = ns.videoId
        /\ isRunning' = ns.isRunning
        /\ isWorking' = ns.isWorking
        /\ timeLeft' = ns.timeLeft
        /\ timerComplete' = ns.timerComplete
        /\ apiLoaded' = ns.apiLoaded
        /\ videoHistory' = ns.videoHistory
        /\ workPeriods' = ns.workPeriods
        /\ breakPeriods' = ns.breakPeriods
        /\ playerRef' = f.playerRef
        /\ programmaticChangeRef' = f.programmaticChangeRef
        /\ isRunningRef' = f.isRunningRef
        /\ intervalRef' = f.intervalRef
        /\ startTimeRef' = f.startTimeRef
        /\ endTimeRef' = f.endTimeRef
        /\ activeIntervals' = f.activeIntervals
        /\ intervalDue' = f.intervalDue
        /\ timeouts' = f.timeouts
        /\ playerState' = f.playerState
        /\ events' = f.events
        /\ fetching' = f.fetching
        /\ issued' = f.issued
        /\ delivered' = f.delivered
        /\ alerted' = f.alerted
        /\ tickLate' = late
        /\ now' = now

\* A handler that may send a command needs room for the player's notification
Room == Len(events) < MaxEvents

---------------------------------------------------------------------------
(* Video URL: extraction of the id *)

\* The URLs tried: two that carry an 11-character id, one whose id is too
\* short, one that is no YouTube URL
Urls ==
    { "https://youtu.be/aaaaaaaaaaa",
      "https://www.youtube.com/watch?v=bbbbbbbbbbb",
      "https://youtu.be/short",
      "hello" }

\* Group 7 of the regular expression on each of Urls ("" when nothing matches)
UrlGroup7(url) ==
    CASE url = "https://youtu.be/aaaaaaaaaaa" -> "aaaaaaaaaaa"
      [] url = "https://www.youtube.com/watch?v=bbbbbbbbbbb" -> "bbbbbbbbbbb"
      [] url = "https://youtu.be/short" -> "short"
      [] OTHER -> ""

IdLength(id) ==
    CASE id = "aaaaaaaaaaa" -> 11
      [] id = "bbbbbbbbbbb" -> 11
      [] id = "short" -> 5
      [] OTHER -> 0

\* Extract YouTube video ID from URL ("" stands for null)
ExtractVideoId(url) ==
    IF IdLength(UrlGroup7(url)) = 11 THEN UrlGroup7(url) ELSE ""

\* The ids that can be extracted from Urls
ValidIds == { ExtractVideoId(url) : url \in Urls } \ { "" }

---------------------------------------------------------------------------
(* The video history *)

HistoryKeep == 19

\* Fetches in flight, over all ids
FetchCount(f) ==
    LET RECURSIVE Sum(_)
        Sum(S) == IF S = {} THEN 0
                  ELSE LET x == CHOOSE y \in S : TRUE IN f[x] + Sum(S \ {x})
    IN  Sum(DOMAIN f)

\* videoHistory.findIndex(item => item.id === id): 0 stands for -1
FindIndex(h, id) ==
    IF \E i \in 1..Len(h) : h[i] = id
    THEN CHOOSE i \in 1..Len(h) : h[i] = id /\ \A j \in 1..(i - 1) : h[j] # id
    ELSE 0

\* Move existing video to top: splice(existingIndex, 1), then unshift
MoveToTop(h, i) ==
    << h[i] >> \o SubSeq(h, 1, i - 1) \o SubSeq(h, i + 1, Len(h))

\* [newItem, ...prev.slice(0, 19)]
AddOnTop(h, id) ==
    << id >> \o SubSeq(h, 1, IF Len(h) < HistoryKeep THEN Len(h) ELSE HistoryKeep)

\* addToHistory up to its first await: the state update of the existing-item
\* branch ...
AddToHistoryState(s, id) ==
    IF FindIndex(s.videoHistory, id) # 0
    THEN [s EXCEPT !.videoHistory = MoveToTop(@, FindIndex(s.videoHistory, id))]
    ELSE s

\* ... and the fetch started by the other branch
AddToHistoryWorld(s, id, w) ==
    IF FindIndex(s.videoHistory, id) # 0
    THEN w
    ELSE [w EXCEPT !.fetching[id] = @ + 1]

---------------------------------------------------------------------------
(* Initial state: the component after mount *)

Init ==
    /\ workMinutes = DefaultWorkMinutes
    /\ breakMinutes = DefaultBreakMinutes
    /\ totalPomodoros = DefaultPomodoros
    /\ currentPomodoro = 0
    /\ videoId = ""
    /\ isRunning = FALSE
    /\ isWorking = TRUE
    /\ timeLeft = DefaultWorkMinutes * SecondsPerMinute
    /\ timerComplete = FALSE
    /\ apiLoaded = FALSE
    /\ playerRef = FALSE
    /\ programmaticChangeRef = FALSE
    /\ isRunningRef = FALSE
    /\ intervalRef = 0
    /\ startTimeRef = 0
    /\ endTimeRef = 0
    /\ now = 0
    /\ activeIntervals = 0
    /\ intervalDue = 0
    /\ timeouts = {}
    /\ playerState = "none"
    /\ events = << >>
    /\ issued = << >>
    /\ delivered = NoEvent
    /\ alerted = FALSE
    /\ tickLate = 0
    /\ workPeriods = 1
    /\ breakPeriods = 0
    /\ videoHistory = << >>
    /\ fetching = [id \in ValidIds |-> 0]

---------------------------------------------------------------------------
(* The countdown *)

\* Mutant: the completion branch forgets setIsRunning(false)
TickSwitchKeepsRunning(s) ==
    IF s.isWorking
    THEN LET nextPomodoro == s.currentPomodoro + 1
         IN  IF nextPomodoro >= s.totalPomodoros
             THEN [s EXCEPT !.timerComplete = TRUE]
             ELSE [s EXCEPT !.isWorking = FALSE,
                            !.currentPomodoro = nextPomodoro,
                            !.timeLeft = s.breakMinutes * SecondsPerMinute,
                            !.breakPeriods = @ + 1]
    ELSE [s EXCEPT !.isWorking = TRUE,
                   !.timeLeft = s.workMinutes * SecondsPerMinute,
                   !.workPeriods = @ + 1]

\* Mutant: the completion check is off by one (> for >=)
TickSwitchOffByOne(s) ==
    IF s.isWorking
    THEN LET nextPomodoro == s.currentPomodoro + 1
         IN  IF nextPomodoro > s.totalPomodoros
             THEN [s EXCEPT !.timerComplete = TRUE, !.isRunning = FALSE]
             ELSE [s EXCEPT !.isWorking = FALSE,
                            !.currentPomodoro = nextPomodoro,
                            !.timeLeft = s.breakMinutes * SecondsPerMinute,
                            !.breakPeriods = @ + 1]
    ELSE [s EXCEPT !.isWorking = TRUE,
                   !.timeLeft = s.workMinutes * SecondsPerMinute,
                   !.workPeriods = @ + 1]

\* Mutant: the Break is given the length of a Work period
TickSwitchBreakOfWorkLength(s) ==
    IF s.isWorking
    THEN LET nextPomodoro == s.currentPomodoro + 1
         IN  IF nextPomodoro >= s.totalPomodoros
             THEN [s EXCEPT !.timerComplete = TRUE, !.isRunning = FALSE]
             ELSE [s EXCEPT !.isWorking = FALSE,
                            !.currentPomodoro = nextPomodoro,
                            !.timeLeft = s.workMinutes * SecondsPerMinute,
                            !.breakPeriods = @ + 1]
    ELSE [s EXCEPT !.isWorking = TRUE,
                   !.timeLeft = s.workMinutes * SecondsPerMinute,
                   !.workPeriods = @ + 1]

\* Mutant: the pomodoro index also grows on leaving a Break
TickSwitchCountsBreaks(s) ==
    IF s.isWorking
    THEN LET nextPomodoro == s.currentPomodoro + 1
         IN  IF nextPomodoro >= s.totalPomodoros
             THEN [s EXCEPT !.timerComplete = TRUE, !.isRunning = FALSE]
             ELSE [s EXCEPT !.isWorking = FALSE,
                            !.currentPomodoro = nextPomodoro,
                            !.timeLeft = s.breakMinutes * SecondsPerMinute,
                            !.breakPeriods = @ + 1]
    ELSE [s EXCEPT !.isWorking = TRUE,
                   !.currentPomodoro = @ + 1,
                   !.timeLeft = s.workMinutes * SecondsPerMinute,
                   !.workPeriods = @ + 1]

\* Switch states at end (interval callback), applied after setTimeLeft(0)
TickSwitch(s) ==
    IF s.isWorking
    THEN LET nextPomodoro == s.currentPomodoro + 1
         IN  IF nextPomodoro >= s.totalPomodoros
             THEN [s EXCEPT !.timerComplete = TRUE, !.isRunning = FALSE]
             ELSE [s EXCEPT !.isWorking = FALSE,
                            !.currentPomodoro = nextPomodoro,
                            !.timeLeft = s.breakMinutes * SecondsPerMinute,
                            !.breakPeriods = @ + 1]
    ELSE [s EXCEPT !.isWorking = TRUE,
                   !.timeLeft = s.workMinutes * SecondsPerMinute,
                   !.workPeriods = @ + 1]

\* Mutant: one second is taken off per tick, whatever the wall clock says
TickStateDecrements(s, remainingMs) ==
    IF s.timeLeft - 1 <= 0
    THEN TickSwitch([s EXCEPT !.timeLeft = 0])
    ELSE [s EXCEPT !.timeLeft = @ - 1]

\* Mutant: the display is computed from the time elapsed since the anchor
TickStateElapsed(s, remainingMs) ==
    IF remainingMs <= 0
    THEN TickSwitch([s EXCEPT !.timeLeft = 0])
    ELSE [s EXCEPT !.timeLeft = Ceil(now - startTimeRef, MsPerSecond)]

\* Mutant: an unexpired tick takes one second off the display
TickStateCountsTicks(s, remainingMs) ==
    IF remainingMs <= 0
    THEN TickSwitch([s EXCEPT !.timeLeft = 0])
    ELSE [s EXCEPT !.timeLeft = @ - 1]

\* State after the interval callback ran at time now
TickState(s, remainingMs) ==
    IF remainingMs <= 0
    THEN TickSwitch([s EXCEPT !.timeLeft = 0])
    ELSE [s EXCEPT !.timeLeft = Ceil(remainingMs, MsPerSecond)]

\* World after the interval callback: an expired period clears the interval
TickWorld(w, remainingMs) ==
    IF remainingMs <= 0
    THEN [w EXCEPT !.intervalRef = 0,
                   !.activeIntervals = IF w.intervalRef # 0 THEN @ - 1 ELSE @]
    ELSE [w EXCEPT !.intervalDue = now + TickMs]

\* The interval callback.  The browser runs it no earlier than its due time and,
\* in a backgrounded tab, possibly much later.
Tick ==
    /\ activeIntervals > 0
    /\ now >= intervalDue
    /\ Room
    /\ LET remainingMs == endTimeRef - now
       IN  Task(IF remainingMs <= 0 THEN now - endTimeRef ELSE 0,
                TickState(State, remainingMs), TickWorld(World, remainingMs))

\* Mutant: the resync does not ask whether the timer runs
VisibilityStateAlways(s, hidden) ==
    IF ~hidden /\ ~s.timerComplete
    THEN [s EXCEPT !.timeLeft = Max(0, Ceil(endTimeRef - now, MsPerSecond))]
    ELSE s

\* Mutant: a resync past the end of the period switches the period
VisibilityStateSwitches(s, hidden) ==
    IF ~hidden /\ s.isRunning /\ ~s.timerComplete
    THEN IF endTimeRef - now <= 0
         THEN TickSwitch([s EXCEPT !.timeLeft = 0])
         ELSE [s EXCEPT !.timeLeft = Ceil(endTimeRef - now, MsPerSecond)]
    ELSE s

\* Visibility detection to resync timer
VisibilityState(s, hidden) ==
    IF ~hidden /\ s.isRunning /\ ~s.timerComplete
    THEN [s EXCEPT !.timeLeft = Max(0, Ceil(endTimeRef - now, MsPerSecond))]
    ELSE s

OnVisibilityChange ==
    \E hidden \in BOOLEAN :
        Task(0, VisibilityState(State, hidden), World)

\* The page becomes visible while the timer runs
Reanchor ==
    /\ isRunning /\ ~timerComplete
    /\ Task(0, VisibilityState(State, FALSE), World)

---------------------------------------------------------------------------
(* User controls *)

\* Start/pause timer
ToggleState(s) ==
    LET r == IF s.timerComplete
             THEN [s EXCEPT !.isWorking = TRUE,
                            !.currentPomodoro = 0,
                            !.timeLeft = s.workMinutes * SecondsPerMinute,
                            !.timerComplete = FALSE,
                            !.workPeriods = 1, !.breakPeriods = 0]
             ELSE s
    IN  [r EXCEPT !.isRunning = ~s.isRunning]

ToggleTimer ==
    /\ Room
    /\ Task(0, ToggleState(State), World)

\* Mutant: the reset forgets setCurrentPomodoro(0)
ResetStateKeepsPomodoro(s) ==
    [s EXCEPT !.isRunning = FALSE,
              !.isWorking = TRUE,
              !.timeLeft = s.workMinutes * SecondsPerMinute,
              !.timerComplete = FALSE,
              !.workPeriods = 1, !.breakPeriods = 0]

\* Reset timer
ResetState(s) ==
    [s EXCEPT !.isRunning = FALSE,
              !.isWorking = TRUE,
              !.currentPomodoro = 0,
              !.timeLeft = s.workMinutes * SecondsPerMinute,
              !.timerComplete = FALSE,
              !.workPeriods = 1, !.breakPeriods = 0]

\* the Reset button is disabled while idle at the full work duration
ResetTimer ==
    /\ ~(~isRunning /\ timeLeft = workMinutes * SecondsPerMinute)
    /\ Room
    /\ Task(0, ResetState(State), World)

\* Mutant: a skip also stops the timer
SkipStateStops(s) ==
    IF s.timerComplete
    THEN s
    ELSE IF s.isWorking
         THEN LET nextPomodoro == s.currentPomodoro + 1
              IN  IF nextPomodoro >= s.totalPomodoros
                  THEN [s EXCEPT !.timerComplete = TRUE, !.isRunning = FALSE]
                  ELSE [s EXCEPT !.isWorking = FALSE,
                                 !.isRunning = FALSE,
                                 !.currentPomodoro = nextPomodoro,
                                 !.timeLeft = s.breakMinutes * SecondsPerMinute,
                                 !.breakPeriods = @ + 1]
         ELSE [s EXCEPT !.isWorking = TRUE,
                        !.isRunning = FALSE,
                        !.timeLeft = s.workMinutes * SecondsPerMinute,
                        !.workPeriods = @ + 1]

\* Mutant: skipSession without its first line
SkipStateUnchecked(s) ==
    IF s.isWorking
    THEN LET nextPomodoro == s.currentPomodoro + 1
         IN  IF nextPomodoro >= s.totalPomodoros
             THEN [s EXCEPT !.timerComplete = TRUE, !.isRunning = FALSE]
             ELSE [s EXCEPT !.isWorking = FALSE,
                            !.currentPomodoro = nextPomodoro,
                            !.timeLeft = s.breakMinutes * SecondsPerMinute,
                            !.breakPeriods = @ + 1]
    ELSE [s EXCEPT !.isWorking = TRUE,
                   !.timeLeft = s.workMinutes * SecondsPerMinute,
                   !.workPeriods = @ + 1]

\* Skip current session: the new React state
SkipState(s) ==
    IF s.timerComplete
    THEN s
    ELSE IF s.isWorking
         THEN LET nextPomodoro == s.currentPomodoro + 1
              IN  IF nextPomodoro >= s.totalPomodoros
                  THEN [s EXCEPT !.timerComplete = TRUE, !.isRunning = FALSE]
                  ELSE [s EXCEPT !.isWorking = FALSE,
                                 !.currentPomodoro = nextPomodoro,
                                 !.timeLeft = s.breakMinutes * SecondsPerMinute,
                                 !.breakPeriods = @ + 1]
         ELSE [s EXCEPT !.isWorking = TRUE,
                        !.timeLeft = s.workMinutes * SecondsPerMinute,
                        !.workPeriods = @ + 1]

\* Skip current session: the interval cleared and the timestamps reset
SkipWorld(s, w) ==
    IF s.timerComplete
    THEN w
    ELSE LET c == IF w.intervalRef # 0
                  THEN [w EXCEPT !.intervalRef = 0, !.activeIntervals = @ - 1]
                  ELSE w
         IN  IF s.isWorking
             THEN IF s.currentPomodoro + 1 >= s.totalPomodoros
                  THEN c
                  ELSE [c EXCEPT !.startTimeRef = now,
                                 !.endTimeRef = now + s.breakMinutes * SecondsPerMinute * MsPerSecond]
             ELSE [c EXCEPT !.startTimeRef = now,
                            !.endTimeRef = now + s.workMinutes * SecondsPerMinute * MsPerSecond]

\* the Skip button is disabled once the session is complete
SkipSession ==
    /\ ~timerComplete
    /\ Room
    /\ Task(0, SkipState(State), SkipWorld(State, World))

---------------------------------------------------------------------------
(* Settings.  The inputs and the preset buttons are disabled while running. *)

\* Mutant: a Work Minutes edit always overwrites the display
WorkMinutesStateAlwaysShown(s, n) ==
    LET r == [s EXCEPT !.workMinutes = n]
    IN  IF ~s.isRunning
        THEN [r EXCEPT !.timeLeft = n * SecondsPerMinute]
        ELSE r

WorkMinutesState(s, n) ==
    LET r == [s EXCEPT !.workMinutes = n]
    IN  IF ~s.isRunning /\ s.isWorking
        THEN [r EXCEPT !.timeLeft = n * SecondsPerMinute]
        ELSE r

BreakMinutesState(s, n) ==
    LET r == [s EXCEPT !.breakMinutes = n]
    IN  IF ~s.isRunning /\ ~s.isWorking
        THEN [r EXCEPT !.timeLeft = n * SecondsPerMinute]
        ELSE r

TotalPomodorosState(s, n) == [s EXCEPT !.totalPomodoros = n]

PresetState(s, workMins, breakMins) ==
    LET r == [s EXCEPT !.workMinutes = workMins, !.breakMinutes = breakMins]
    IN  IF ~s.isRunning
        THEN IF s.isWorking
             THEN [r EXCEPT !.timeLeft = workMins * SecondsPerMinute]
             ELSE [r EXCEPT !.timeLeft = breakMins * SecondsPerMinute]
        ELSE r

SetWorkMinutes ==
    /\ ~isRunning
    /\ \E n \in MinuteInputs : Task(0, WorkMinutesState(State, n), World)

SetBreakMinutes ==
    /\ ~isRunning
    /\ \E n \in MinuteInputs : Task(0, BreakMinutesState(State, n), World)

SetTotalPomodoros ==
    /\ ~isRunning
    /\ \E n \in CycleInputs : Task(0, TotalPomodorosState(State, n), World)

TypeWorkMinutes ==
    /\ ~isRunning
    /\ \E n \in TypedNumbers : Task(0, WorkMinutesState(State, n), World)

TypeBreakMinutes ==
    /\ ~isRunning
    /\ \E n \in TypedNumbers : Task(0, BreakMinutesState(State, n), World)

TypeTotalPomodoros ==
    /\ ~isRunning
    /\ \E n \in TypedCounts : Task(0, TotalPomodorosState(State, n), World)

\* the preset buttons of the page
Presets == { <<25, 5>> }

\* Mutant: the preset buttons are not disabled while the timer runs
SetPresetWhileRunning ==
    \E p \in Presets : Task(0, PresetState(State, p[1], p[2]), World)

SetPreset ==
    /\ ~isRunning
    /\ \E p \in Presets : Task(0, PresetState(State, p[1], p[2]), World)

---------------------------------------------------------------------------
(* Video URL *)

\* Mutant: the id is stored before it is checked
UrlSubmitStateStoresFirst(s, url) ==
    LET id == ExtractVideoId(url)
    IN  IF id # ""
        THEN AddToHistoryState([s EXCEPT !.videoId = id], id)
        ELSE [s EXCEPT !.videoId = UrlGroup7(url)]

\* Handle URL submission (the URL typed into the input, then Load)
UrlSubmitState(s, url) ==
    LET id == ExtractVideoId(url)
    IN  IF id # "" THEN AddToHistoryState([s EXCEPT !.videoId = id], id) ELSE s

UrlSubmitWorld(s, url, w) ==
    LET id == ExtractVideoId(url)
    IN  IF id # ""
        THEN AddToHistoryWorld(s, id, w)
        ELSE [w EXCEPT !.alerted = TRUE]

\* Load pressed with url in the input
SubmitUrl(url) ==
    LET w == UrlSubmitWorld(State, url, World)
    IN  /\ Room
        /\ FetchCount(w.fetching) <= MaxFetches
        /\ Task(0, UrlSubmitState(State, url), w)

HandleUrlSubmit == \E url \in Urls : SubmitUrl(url)

\* ... with a URL that carries an id
SubmitValidUrl == \E url \in Urls : ExtractVideoId(url) # "" /\ SubmitUrl(url)

\* fetchVideoData resolved: addToHistory goes on after its await
FetchDoneState(s, id) == [s EXCEPT !.videoHistory = AddOnTop(@, id)]

FetchDone ==
    \E id \in ValidIds :
        /\ fetching[id] > 0
        /\ Task(0, FetchDoneState(State, id), [World EXCEPT !.fetching[id] = @ - 1])

\* Function to remove video from history
RemoveFromHistoryState(s, id) ==
    [s EXCEPT !.videoHistory = SelectSeq(@, LAMBDA x : x # id)]

RemoveFromHistory ==
    \E i \in 1..Len(videoHistory) :
        Task(0, RemoveFromHistoryState(State, videoHistory[i]), World)

\* Function to clear all history (the button is shown with a non-empty history)
ClearHistory ==
    /\ videoHistory # << >>
    /\ Task(0, [State EXCEPT !.videoHistory = << >>], World)

\* Function to load video from history
LoadFromHistoryState(s, id) ==
    AddToHistoryState([s EXCEPT !.videoId = id], id)

LoadFromHistory ==
    /\ Room
    /\ \E i \in 1..Len(videoHistory) :
         LET id == videoHistory[i]
         IN  Task(0, LoadFromHistoryState(State, id),
                  AddToHistoryWorld(State, id, World))

\* window.onYouTubeIframeAPIReady
ApiReady ==
    /\ ~apiLoaded
    /\ Room
    /\ Task(0, [State EXCEPT !.apiLoaded = TRUE], World)

---------------------------------------------------------------------------
(* Player notifications *)

\* Mutant: the video is looped only while the timer runs
StateChangeWorldLoopsWhenRunning(data, w) ==
    IF data = YtEnded /\ w.isRunningRef THEN PlayVideo(w) ELSE w

\* onStateChange: the loop command
StateChangeWorld(data, w) ==
    IF data = YtEnded THEN PlayVideo(w) ELSE w

\* Mutant: the notification is not checked against programmaticChangeRef
StateChangeStateUnguarded(data, s, w) ==
    IF data = YtPlaying /\ ~w.isRunningRef
    THEN [s EXCEPT !.isRunning = TRUE]
    ELSE IF data = YtPaused /\ w.isRunningRef
         THEN [s EXCEPT !.isRunning = FALSE]
         ELSE s

\* Mutant: a pause on the player is not passed on to the timer
StateChangeStateIgnoresPause(data, s, w) ==
    IF ~w.programmaticChangeRef
    THEN IF data = YtPlaying /\ ~w.isRunningRef
         THEN [s EXCEPT !.isRunning = TRUE]
         ELSE s
    ELSE s

\* onStateChange: the reverse drive of the clock
StateChangeState(data, s, w) ==
    IF ~w.programmaticChangeRef
    THEN IF data = YtPlaying /\ ~w.isRunningRef
         THEN [s EXCEPT !.isRunning = TRUE]
         ELSE IF data = YtPaused /\ w.isRunningRef
              THEN [s EXCEPT !.isRunning = FALSE]
              ELSE s
    ELSE s

\* The oldest notification in flight is delivered
PlayerEvent ==
    /\ events # << >>
    /\ LET data == Head(events)
           w    == [World EXCEPT !.events = Tail(@), !.delivered = data]
       IN  Task(0, StateChangeState(data, State, w), StateChangeWorld(data, w))

\* The user, on the player's own controls, and the video running out
PlayerStep(to, data) ==
    /\ playerRef
    /\ Room
    /\ playerState' = to
    /\ events' = Append(events, data)
    /\ issued' = << >>
    /\ delivered' = NoEvent
    /\ alerted' = FALSE
    /\ tickLate' = 0
    /\ UNCHANGED << videoHistory, fetching,
                        workMinutes, breakMinutes, totalPomodoros, currentPomodoro,
                    videoId, isRunning, isWorking, timeLeft, timerComplete,
                    apiLoaded, playerRef, programmaticChangeRef, isRunningRef,
                    intervalRef, startTimeRef, endTimeRef, now, activeIntervals,
                    intervalDue, timeouts, workPeriods, breakPeriods >>

UserPlay == playerState \in {"cued", "paused", "ended"} /\ PlayerStep("playing", YtPlaying)

UserPause == playerState = "playing" /\ PlayerStep("paused", YtPaused)

VideoEnds == playerState = "playing" /\ PlayerStep("ended", YtEnded)

---------------------------------------------------------------------------
(* Time *)

\* Mutant: the timeout runs but leaves the flag set
GuardTimeoutKeepsFlag ==
    \E t \in timeouts :
        /\ t <= now
        /\ timeouts' = timeouts \ {t}
        /\ issued' = << >>
        /\ delivered' = NoEvent
        /\ alerted' = FALSE
        /\ tickLate' = 0
        /\ UNCHANGED << videoHistory, fetching,
                        workMinutes, breakMinutes, totalPomodoros, currentPomodoro,
                        videoId, isRunning, isWorking, timeLeft, timerComplete,
                        apiLoaded, playerRef, programmaticChangeRef, isRunningRef,
                        intervalRef, startTimeRef, endTimeRef, now, activeIntervals,
                        intervalDue, playerState, events, workPeriods,
                        breakPeriods >>

\* setTimeout(() => { programmaticChangeRef.current = false }, 100)
GuardTimeout ==
    \E t \in timeouts :
        /\ t <= now
        /\ timeouts' = timeouts \ {t}
        /\ programmaticChangeRef' = FALSE
        /\ issued' = << >>
        /\ delivered' = NoEvent
        /\ alerted' = FALSE
        /\ tickLate' = 0
        /\ UNCHANGED << videoHistory, fetching,
                        workMinutes, breakMinutes, totalPomodoros, currentPomodoro,
                        videoId, isRunning, isWorking, timeLeft, timerComplete,
                        apiLoaded, playerRef, isRunningRef, intervalRef,
                        startTimeRef, endTimeRef, now, activeIntervals,
                        intervalDue, playerState, events, workPeriods,
                        breakPeriods >>

\* The wall clock moves on by d.  A guard-reset timeout runs when it is due:
\* the clock does not pass its due time with the timeout still pending.
AdvanceBy(d) ==
    /\ d > 0
    /\ \A t \in timeouts : now + d <= t
    /\ now' = now + d
    /\ issued' = << >>
    /\ delivered' = NoEvent
    /\ alerted' = FALSE
    /\ tickLate' = 0
    /\ UNCHANGED << videoHistory, fetching,
                        workMinutes, breakMinutes, totalPomodoros, currentPomodoro,
                    videoId, isRunning, isWorking, timeLeft, timerComplete,
                    apiLoaded, playerRef, programmaticChangeRef, isRunningRef,
                    intervalRef, startTimeRef, endTimeRef, activeIntervals,
                    intervalDue, timeouts, playerState, events, workPeriods,
                    breakPeriods >>

\* Within a guard window: half a guard delay at a time
AdvanceFine ==
    /\ now + GuardDelayMs \div 2 <= MaxFineNow
    /\ AdvanceBy(GuardDelayMs \div 2)

\* While the countdown runs or rests: a long stretch in which no task runs (the
\* browser delays the interval of a backgrounded tab or a sleeping machine)
AdvanceCoarse ==
    \E d \in CoarseSteps : now + d <= MaxNow /\ AdvanceBy(d)

\* The wall clock is set back by d (clock adjustment): Date.now() returns less
\* than before.  setInterval and setTimeout run on the monotonic clock, so the
\* waits still to go are unchanged (a callback already due stays due); the
\* anchors, read from Date.now() earlier, keep their values.
SetBackBy(d) ==
    /\ d > 0
    /\ now - d >= 0
    /\ timeLeft <= Max(workMinutes, breakMinutes) * SecondsPerMinute
    /\ now' = now - d
    /\ intervalDue' = IF activeIntervals = 0 THEN intervalDue
                      ELSE Max(intervalDue, now) - d
    /\ timeouts' = { Max(u, now) - d : u \in timeouts }
    /\ issued' = << >>
    /\ delivered' = NoEvent
    /\ alerted' = FALSE
    /\ tickLate' = 0
    /\ UNCHANGED << videoHistory, fetching,
                    workMinutes, breakMinutes, totalPomodoros, currentPomodoro,
                    videoId, isRunning, isWorking, timeLeft, timerComplete,
                    apiLoaded, playerRef, programmaticChangeRef, isRunningRef,
                    intervalRef, startTimeRef, endTimeRef, activeIntervals,
                    playerState, events, workPeriods, breakPeriods >>

ClockSetBack ==
    \E d \in CoarseSteps : SetBackBy(d)

---------------------------------------------------------------------------
(* The whole system *)

Next ==
    \/ Tick
    \/ OnVisibilityChange
    \/ ToggleTimer
    \/ ResetTimer
    \/ SkipSession
    \/ SetWorkMinutes
    \/ SetBreakMinutes
    \/ SetTotalPomodoros
    \/ SetPreset
    \/ HandleUrlSubmit
    \/ ApiReady
    \/ PlayerEvent
    \/ UserPlay
    \/ UserPause
    \/ VideoEnds
    \/ GuardTimeout
    \/ AdvanceFine
    \/ AdvanceCoarse
    \/ FetchDone
    \/ RemoveFromHistory
    \/ ClearHistory
    \/ LoadFromHistory
    \/ TypeWorkMinutes
    \/ TypeBreakMinutes
    \/ TypeTotalPomodoros
    \/ ClockSetBack

Spec == Init /\ [][Next]_vars

(* The countdown alone: no video is loaded *)

NextClock ==
    \/ Tick
    \/ OnVisibilityChange
    \/ ToggleTimer
    \/ ResetTimer
    \/ SkipSession
    \/ SetWorkMinutes
    \/ SetBreakMinutes
    \/ SetTotalPomodoros
    \/ SetPreset
    \/ AdvanceCoarse

SpecClock == Init /\ [][NextClock]_vars

(* The synchronisation with the player, at the time scale of the guard *)

NextSync ==
    \/ ToggleTimer
    \/ ResetTimer
    \/ SkipSession
    \/ SubmitValidUrl
    \/ ApiReady
    \/ PlayerEvent
    \/ UserPlay
    \/ UserPause
    \/ VideoEnds
    \/ GuardTimeout
    \/ AdvanceFine

SpecSync == Init /\ [][NextSync]_vars


(* The video URL and the history *)

NextVideo ==
    \/ HandleUrlSubmit
    \/ FetchDone
    \/ RemoveFromHistory
    \/ ClearHistory
    \/ LoadFromHistory
    \/ ApiReady
    \/ PlayerEvent
    \/ ToggleTimer

SpecVideo == Init /\ [][NextVideo]_vars

(* The settings with any number typed into them, and the controls, at one *)
(* moment of the wall clock                                               *)

NextSettings ==
    \/ ToggleTimer
    \/ ResetTimer
    \/ TypeWorkMinutes
    \/ TypeBreakMinutes
    \/ TypeTotalPomodoros
    \/ SetPreset

SpecSettings == Init /\ [][NextSettings]_vars

(* An undisturbed session: the user sets the durations, may load a video,    *)
(* presses Start and then leaves the page alone.  The interval fires on      *)
(* time, the player's notifications arrive before the clock moves on.        *)

NaturalConfigs ==
    { <<DefaultWorkMinutes, DefaultBreakMinutes, DefaultPomodoros>> }
    \cup ((1..MaxNaturalMinutes) \X (1..MaxNaturalMinutes) \X (1..MaxNaturalCycles))

\* The idle page with its settings made, with or without a video cued
InitNatural ==
    /\ \E c \in NaturalConfigs :
        /\ workMinutes = c[1]
        /\ breakMinutes = c[2]
        /\ totalPomodoros = c[3]
        /\ timeLeft = c[1] * SecondsPerMinute
    /\ \E loaded \in BOOLEAN :
        /\ playerRef = loaded
        /\ apiLoaded = loaded
        /\ videoId = IF loaded THEN "aaaaaaaaaaa" ELSE ""
        /\ playerState = IF loaded THEN "cued" ELSE "none"
    /\ currentPomodoro = 0
    /\ isRunning = FALSE
    /\ isWorking = TRUE
    /\ timerComplete = FALSE
    /\ programmaticChangeRef = FALSE
    /\ isRunningRef = FALSE
    /\ intervalRef = 0
    /\ startTimeRef = 0
    /\ endTimeRef = 0
    /\ now = 0
    /\ activeIntervals = 0
    /\ intervalDue = 0
    /\ timeouts = {}
    /\ events = << >>
    /\ issued = << >>
    /\ delivered = NoEvent
    /\ alerted = FALSE
    /\ tickLate = 0
    /\ workPeriods = 1
    /\ breakPeriods = 0
    /\ videoHistory = << >>
    /\ fetching = [id \in ValidIds |-> 0]

Idle ==
    /\ ~isRunning
    /\ ~timerComplete
    /\ isWorking
    /\ currentPomodoro = 0
    /\ timeLeft = workMinutes * SecondsPerMinute

\* Start, pressed on the idle page
NaturalStart == Idle /\ ToggleTimer

\* Due times of the pending timers
DueTimes == timeouts \cup (IF activeIntervals > 0 THEN {intervalDue} ELSE {})

\* The clock moves on to the next due time once every task that is ready ran
NaturalAdvance ==
    /\ events = << >>
    /\ DueTimes # {}
    /\ \A t \in DueTimes : t > now
    /\ \E t \in DueTimes :
        /\ \A u \in DueTimes : t <= u
        /\ AdvanceBy(t - now)

NextNatural ==
    \/ NaturalStart
    \/ Tick
    \/ PlayerEvent
    \/ GuardTimeout
    \/ NaturalAdvance

\* The browser keeps running ready tasks and time keeps passing
SpecNatural == InitNatural /\ [][NextNatural]_vars /\ WF_vars(NextNatural)

(* A session with a video in which the user may also press Skip during a     *)
(* Work period, before or after Start; everything else is left alone.        *)

\* One minute of work, one of break, two pomodoros, a video cued
InitBoundary ==
    /\ InitNatural
    /\ << workMinutes, breakMinutes, totalPomodoros >> = << 1, 1, 2 >>
    /\ playerRef

\* Skip pressed during a Work period
SkipWork == isWorking /\ SkipSession

NextBoundary ==
    \/ NaturalStart
    \/ SkipWork
    \/ Tick
    \/ PlayerEvent
    \/ GuardTimeout
    \/ NaturalAdvance

\* Ready tasks run and time passes; Skip is up to the user
SpecBoundary == InitBoundary /\ [][NextBoundary]_vars /\ WF_vars(NextNatural)

(* The countdown under a wall clock that may also be set back *)

\* Time passes, within the first stretch after the page opened
AdvanceWall ==
    \E d \in CoarseSteps : now + d <= MaxWallNow /\ AdvanceBy(d)

NextWallClock ==
    \/ Tick
    \/ ToggleTimer
    \/ SkipSession
    \/ AdvanceWall
    \/ ClockSetBack

\* One minute of work, one of break, two pomodoros, no video
InitWallClock ==
    /\ InitNatural
    /\ << workMinutes, breakMinutes, totalPomodoros >> = << 1, 1, 2 >>
    /\ ~playerRef

SpecWallClock == InitWallClock /\ [][NextWallClock]_vars

---------------------------------------------------------------------------
(* Properties *)

MsPerMinute == SecondsPerMinute * MsPerSecond

\* C1: an undisturbed session (Start on the idle page, then only on-time ticks,
\* for every valid work, break and cycle count) ends Complete and not running,
\* and stays so.
C1_NaturalRunCompletes == <>[](timerComplete /\ ~isRunning)

\* A three-pomodoro session that ran to completion with a video loaded
C1_Witness ==
    /\ timerComplete /\ ~isRunning
    /\ playerRef
    /\ workPeriods = 3 /\ breakPeriods = 2
    /\ activeIntervals = 0

\* C2: with totalPomodoros = N and only natural expiries the session completes
\* at the expiry of the N-th Work period: N Work periods and N-1 Break periods
\* were begun, the last period was Work, and it ended at N work durations plus
\* N-1 break durations after Start; no Break is ever begun after the N-th Work.
C2_CompleteAfterNthWork ==
    /\ workPeriods <= totalPomodoros
    /\ breakPeriods <= totalPomodoros - 1
    /\ timerComplete =>
        /\ workPeriods = totalPomodoros
        /\ breakPeriods = totalPomodoros - 1
        /\ isWorking
        /\ endTimeRef = (totalPomodoros * workMinutes
                         + (totalPomodoros - 1) * breakMinutes) * MsPerMinute
    /\ (isRunning /\ ~timerComplete) => now <= endTimeRef

\* A two-pomodoro session, complete, whose single break was begun
C2_Witness ==
    /\ timerComplete
    /\ totalPomodoros = 2
    /\ workPeriods = 2 /\ breakPeriods = 1
    /\ workMinutes # breakMinutes

\* The clock as the claims name it
ClockVars == << isRunning, isWorking, timerComplete, currentPomodoro, timeLeft,
                startTimeRef, endTimeRef >>

\* C3: the music plays only during work sessions: once every notification has
\* been handled, the player is playing only if the timer runs in a Work period.
C3_PlaysOnlyDuringWork ==
    (events = << >> /\ playerState = "playing")
        => (isRunning /\ isWorking /\ ~timerComplete)

\* C4: a Played or Paused notification handled while the guard is armed changes
\* nothing of the clock.
C4_EchoSuppressed ==
    [][(PlayerEvent /\ programmaticChangeRef /\ Head(events) \in {YtPlaying, YtPaused})
          => UNCHANGED << ClockVars, isRunningRef, intervalRef, intervalDue >>]_vars

\* The Paused echo of the pause sent on entering a Break was handled with the
\* guard armed, and the timer still runs
C4_Witness ==
    /\ delivered = YtPaused
    /\ programmaticChangeRef
    /\ isRunning /\ ~isWorking
    /\ playerState = "paused"

\* C5: a Played notification handled more than the guard delay after the last
\* command (every guard window lies in the past), with the timer not running,
\* starts the timer.
C5_PlayedAfterGuardStarts ==
    [][(PlayerEvent /\ Head(events) = YtPlaying /\ ~isRunning
        /\ \A t \in timeouts : t < now)
          => isRunning']_vars

\* The user paused the timer, the guard ran out, the user pressed play on the
\* player: the timer runs again
C5_Witness ==
    /\ delivered = YtPlaying
    /\ isRunning
    /\ now >= GuardDelayMs
    /\ timeouts = {now + GuardDelayMs}
    /\ issued = << "play" >>

\* C6: every Ended notification makes the handler send play, whatever the phase,
\* whether the timer runs or is complete, whether the guard is armed.
C6_EndedAlwaysLoops ==
    delivered = YtEnded => (issued = << "play" >> /\ playerState = "playing")

\* The video ended in a Break with the timer paused and the guard armed
C6_Witness ==
    /\ delivered = YtEnded
    /\ ~isWorking /\ ~isRunning
    /\ programmaticChangeRef
    /\ issued = << "play" >>

\* C7 as stated: after a single late tick out of a Work period the display reads
\* 0 and the phase has advanced once.
C7_LateTickLeavesZero ==
    (tickLate > 0 /\ (~isWorking \/ timerComplete)) => timeLeft = 0

\* C7 amended: a single tick at or after endTimeRef, however late, advances a Work
\* period exactly once: to Complete (display 0) after the last pomodoro,
\* otherwise to a Break that starts now with its full duration.
C7_LateTickAdvancesOnce ==
    [][(Tick /\ isWorking /\ now >= endTimeRef)
          => \/ /\ currentPomodoro + 1 >= totalPomodoros
                /\ timerComplete' /\ ~isRunning' /\ isWorking'
                /\ currentPomodoro' = currentPomodoro
                /\ timeLeft' = 0
                /\ UNCHANGED << workPeriods, breakPeriods >>
             \/ /\ currentPomodoro + 1 < totalPomodoros
                /\ ~timerComplete' /\ isRunning' /\ ~isWorking'
                /\ currentPomodoro' = currentPomodoro + 1
                /\ timeLeft' = breakMinutes * SecondsPerMinute
                /\ startTimeRef' = now
                /\ endTimeRef' = now + breakMinutes * MsPerMinute
                /\ breakPeriods' = breakPeriods + 1
                /\ workPeriods' = workPeriods]_vars

\* The tick came later than a whole break after the end of the Work period, and
\* the Break has just begun
C7_Witness ==
    /\ tickLate > breakMinutes * MsPerMinute
    /\ breakMinutes >= 1
    /\ isRunning /\ ~isWorking
    /\ timeLeft = breakMinutes * SecondsPerMinute
    /\ breakPeriods = 1

\* C8 as stated: while the timer runs, no tick makes the display grow.
C8_NeverGrowsWhileRunning ==
    [][(Tick /\ isRunning /\ isRunning') => timeLeft' <= timeLeft]_vars

\* C8 amended: while the timer runs within one period (no phase change), no step
\* makes the display grow.
C8_NeverGrowsWithinPeriod ==
    [][(isRunning /\ isRunning' /\ isWorking' = isWorking
        /\ timerComplete' = timerComplete /\ currentPomodoro' = currentPomodoro)
          => timeLeft' <= timeLeft]_vars

\* Two ticks into the default Work period
C8_Witness ==
    /\ isRunning /\ isWorking /\ ~timerComplete
    /\ workPeriods = 1
    /\ now >= startTimeRef + 2 * BigStep
    /\ now < endTimeRef
    /\ timeLeft = Ceil(endTimeRef - now, MsPerSecond)

\* C9: while the timer does not run no interval is alive, and neither time
\* passing nor a visibility change changes the display, the phase or the cycle;
\* pausing keeps the display as last computed.
C9_FrozenWhilePaused ==
    /\ [](~isRunning => (activeIntervals = 0 /\ intervalRef = 0 /\ ~ENABLED Tick))
    /\ [][(~isRunning /\ (AdvanceCoarse \/ OnVisibilityChange))
            => UNCHANGED << isRunning, isWorking, timerComplete, currentPomodoro,
                            timeLeft >>]_vars
    /\ [][(ToggleTimer /\ isRunning)
            => (~isRunning' /\ UNCHANGED << isWorking, timerComplete,
                                            currentPomodoro, timeLeft >>)]_vars

\* Paused in mid-period, the stale end long past, the display still frozen
C9_Witness ==
    /\ ~isRunning /\ ~timerComplete /\ isWorking
    /\ timeLeft > 0
    /\ timeLeft < workMinutes * SecondsPerMinute
    /\ now > endTimeRef + BigStep
    /\ activeIntervals = 0

\* C10: a Played notification handled while the timer already runs moves neither
\* the anchors nor anything else of the clock, and the interval goes on.
C10_StartIdempotent ==
    [][(PlayerEvent /\ Head(events) = YtPlaying /\ isRunning)
          => UNCHANGED << ClockVars, intervalRef, intervalDue, activeIntervals >>]_vars

\* The user pressed play on the player in a running Break, after the guard ran
\* out and some time after the period was anchored
C10_Witness ==
    /\ delivered = YtPlaying
    /\ isRunning /\ ~timerComplete
    /\ ~programmaticChangeRef
    /\ now > startTimeRef
    /\ issued = << >>

\* C11: whenever the session is complete the timer does not run and the
\* pomodoro index is the last one.
C11_CompleteIsStopped ==
    timerComplete => (~isRunning /\ currentPomodoro = totalPomodoros - 1)

\* C12 as stated: in the default session (25 min, 5 min, 4 pomodoros) the tick at
\* exactly 1500 s after Start enters the Break with 300 s left and the pomodoro
\* index still 0.
C12_FirstExpiryKeepsIndex ==
    [][(Tick /\ workMinutes = DefaultWorkMinutes /\ breakMinutes = DefaultBreakMinutes
        /\ totalPomodoros = DefaultPomodoros /\ workPeriods = 1 /\ isWorking
        /\ now = startTimeRef + DefaultWorkMinutes * MsPerMinute)
          => (~isWorking' /\ ~timerComplete' /\ currentPomodoro' = 0
              /\ timeLeft' = DefaultBreakMinutes * SecondsPerMinute)]_vars

\* C12 amended: that tick enters the Break with 300 s left and the pomodoro index
\* 1; the first Break begins at no other time.
C12_FirstExpiryEntersBreak ==
    /\ [][(Tick /\ workMinutes = DefaultWorkMinutes /\ breakMinutes = DefaultBreakMinutes
           /\ totalPomodoros = DefaultPomodoros /\ workPeriods = 1 /\ isWorking
           /\ now = startTimeRef + DefaultWorkMinutes * MsPerMinute)
             => (~isWorking' /\ ~timerComplete' /\ isRunning'
                 /\ currentPomodoro' = 1
                 /\ timeLeft' = DefaultBreakMinutes * SecondsPerMinute)]_vars
    /\ []((workMinutes = DefaultWorkMinutes /\ ~isWorking /\ workPeriods = 1)
             => (startTimeRef = DefaultWorkMinutes * MsPerMinute
                 /\ currentPomodoro = 1 /\ breakPeriods = 1))

\* The default session right after its first Work period ran out
C12_Witness ==
    /\ workMinutes = DefaultWorkMinutes /\ breakMinutes = DefaultBreakMinutes
    /\ totalPomodoros = DefaultPomodoros
    /\ now = DefaultWorkMinutes * MsPerMinute
    /\ isRunning /\ ~isWorking
    /\ currentPomodoro = 1
    /\ timeLeft = DefaultBreakMinutes * SecondsPerMinute
    /\ breakPeriods = 1

\* C13: Reset, pressed in any state, gives the idle state (Work, pomodoro 0, the
\* full work duration, not running), and no interval is left alive.
C13_ResetGivesIdle ==
    /\ [][ResetTimer => (Idle' /\ intervalRef' = 0 /\ activeIntervals' = 0
                         /\ ~(ENABLED Tick)')]_vars
    \* ... also where the Reset button is disabled: what resetTimer would do
    /\ [](LET ns == ResetState(State)
              f  == Effects(ns, World)
          IN  /\ ~ns.isRunning /\ ns.isWorking /\ ~ns.timerComplete
              /\ ns.currentPomodoro = 0
              /\ ns.timeLeft = workMinutes * SecondsPerMinute
              /\ f.intervalRef = 0 /\ f.activeIntervals = 0)

\* Idle again although the last period anchored was a Break
C13_Witness ==
    /\ Idle
    /\ activeIntervals = 0
    /\ startTimeRef > 0
    /\ workMinutes # breakMinutes
    /\ endTimeRef - startTimeRef = breakMinutes * MsPerMinute

\* C14: Skip gives the phase, completion, pomodoro index and display that the
\* expiry of the current period would give.
C14_SkipEqualsExpiry ==
    [][SkipSession =>
         LET e == TickSwitch([State EXCEPT !.timeLeft = 0])
         IN  /\ isWorking' = e.isWorking
             /\ timerComplete' = e.timerComplete
             /\ currentPomodoro' = e.currentPomodoro
             /\ timeLeft' = e.timeLeft]_vars

\* C15: whenever a complete session starts running, it is first reset to idle
\* (Work, pomodoro 0, full work duration, not complete) and anchored afresh.
C15_StartFromCompleteResets ==
    [][(timerComplete /\ ~isRunning /\ isRunning')
          => (/\ ~timerComplete' /\ isWorking' /\ currentPomodoro' = 0
              /\ timeLeft' = workMinutes * SecondsPerMinute
              /\ startTimeRef' = now
              /\ endTimeRef' = now + workMinutes * MsPerMinute)]_vars

C16_SettingsClamped ==
    /\ workMinutes * SecondsPerMinute \in 1..3600
    /\ breakMinutes * SecondsPerMinute \in 1..1800
    /\ totalPomodoros \in 1..20

\* C18: the pomodoro index is at least 0 and less than the pomodoro count.
C18_IndexBelowCount ==
    0 <= currentPomodoro /\ currentPomodoro < totalPomodoros

\* C19: the display is never negative.
C19_DisplayNotNegative == timeLeft >= 0

\* C20: submitting a URL from which no 11-character id is extracted raises
\* the alert and changes neither the session, nor the video id, nor the
\* history, nor the player; no fetch is started.
C20_InvalidUrlRejected ==
    /\ [][(\E url \in Urls : ExtractVideoId(url) = "" /\ SubmitUrl(url))
            => (/\ alerted'
                /\ UNCHANGED << isRunning, isWorking, timerComplete, currentPomodoro,
                                timeLeft, startTimeRef, endTimeRef, intervalRef,
                                activeIntervals, videoId, videoHistory, fetching,
                                playerRef, playerState, events,
                                programmaticChangeRef, timeouts >>)]_vars
    /\ [](alerted => issued = << >>)

\* The alert was raised with a video loaded, a history kept and the timer running
C20_Witness ==
    /\ alerted
    /\ videoId # ""
    /\ videoHistory # << >>
    /\ playerRef
    /\ isRunning

\* C21: after Reset the guard is not armed, no guard timeout is pending and no
\* interval is alive.
C21_ResetClearsGuard ==
    [][ResetTimer => (/\ ~programmaticChangeRef'
                      /\ timeouts' = {}
                      /\ activeIntervals' = 0)]_vars

C24_GuardCoversWindow ==
    (\E t \in timeouts : t > now) => programmaticChangeRef

\* C25: a Played or Paused notification handled while the guard is armed
\* disarms it.
C25_EchoConsumesGuard ==
    [][(PlayerEvent /\ programmaticChangeRef /\ Head(events) \in {YtPlaying, YtPaused})
          => ~programmaticChangeRef']_vars

\* C27: a Paused notification handled with the guard not armed stops a running
\* timer and leaves the phase, the pomodoro index and the display as they are;
\* with the timer not running it changes nothing of the clock.
C27_UserPauseStopsTimer ==
    /\ [][(PlayerEvent /\ Head(events) = YtPaused /\ ~programmaticChangeRef /\ isRunning)
            => (/\ ~isRunning' /\ ~isRunningRef'
                /\ activeIntervals' = 0
                /\ UNCHANGED << isWorking, timerComplete, currentPomodoro,
                                timeLeft >>)]_vars
    /\ [][(PlayerEvent /\ Head(events) = YtPaused /\ ~isRunning)
            => UNCHANGED << ClockVars, intervalRef, activeIntervals >>]_vars

\* The user paused the video in a running Work period: the timer stopped and
\* the playback effect sent its pause
C27_Witness ==
    /\ delivered = YtPaused
    /\ ~isRunning /\ isWorking /\ ~timerComplete
    /\ issued = << "pause" >>
    /\ playerState = "paused"

\* C28: the Played notification that answers the play sent on Ended changes
\* nothing of the clock.
C28_LoopLeavesClock ==
    [][(delivered = YtEnded /\ PlayerEvent)
          => UNCHANGED << isRunning, isWorking, timerComplete, currentPomodoro,
                          timeLeft >>]_vars

\* C29: a Skip that does not complete the session keeps the running flag and
\* shows the full duration of the new period; while running the new period is
\* anchored at now and one interval is alive, while paused none is.
C29_SkipKeepsRunning ==
    [][(SkipSession /\ ~(isWorking /\ currentPomodoro + 1 >= totalPomodoros))
          => LET d == IF isWorking THEN breakMinutes ELSE workMinutes
             IN  /\ isRunning' = isRunning
                 /\ isWorking' = ~isWorking
                 /\ ~timerComplete'
                 /\ timeLeft' = d * SecondsPerMinute
                 /\ startTimeRef' = now
                 /\ endTimeRef' = now + d * MsPerMinute
                 /\ isRunning => (/\ activeIntervals' = 1 /\ intervalRef' # 0
                                  /\ intervalDue' = now + TickMs)
                 /\ ~isRunning => (activeIntervals' = 0 /\ intervalRef' = 0)]_vars

\* Skipped into a Break with the timer paused, some time after the page opened
C29_Witness ==
    /\ ~isRunning /\ ~isWorking /\ ~timerComplete
    /\ now > 0
    /\ startTimeRef = now
    /\ endTimeRef = now + breakMinutes * MsPerMinute
    /\ timeLeft = breakMinutes * SecondsPerMinute
    /\ activeIntervals = 0

\* C30: once the session is complete Skip is disabled, and skipSession would
\* change neither the state nor the anchors nor the interval.
C30_SkipCompleteNoOp ==
    timerComplete =>
        /\ ~ENABLED SkipSession
        /\ SkipState(State) = State
        /\ SkipWorld(State, World) = World

\* A complete session, the video playing
C30_Witness ==
    /\ timerComplete
    /\ isRunning
    /\ playerState = "playing"

\* C23: a running timer that enters a Break, by expiry or by Skip, is still
\* running after every later step, up to and into the next Work period.
C23_BreakKeepsRunning ==
    [][(isRunning /\ (~isWorking \/ ~isWorking')) => isRunning']_vars

\* C26: the guard is armed only while one of its timeouts is pending, and an
\* armed guard is always disarmed later, notification or not; with the guard
\* off, Paused and Played on the player drive the running flag.
C26_GuardExpires ==
    /\ [](programmaticChangeRef => timeouts # {})
    /\ [](~programmaticChangeRef =>
            /\ ~StateChangeState(YtPaused, State, World).isRunning
            /\ StateChangeState(YtPlaying, State, World).isRunning)
    /\ (programmaticChangeRef ~> ~programmaticChangeRef)

\* Skip on the idle page sent pause to a cued player: the guard is armed and no
\* notification will come
C26_Witness ==
    /\ programmaticChangeRef
    /\ issued = << "pause" >>
    /\ playerState = "cued"
    /\ events = << >>
    /\ ~isRunning /\ ~isWorking

\* C31: an edit of a duration made while the timer does not run sets the
\* display to the new duration exactly when the edited duration is that of the
\* period shown (Work or Break), and changes neither the phase nor the pomodoro
\* index nor the running flag; the stored value is what the display shows when
\* that period is entered next.
C31_EditShowsCurrentPhase ==
    /\ [][SetWorkMinutes
            => (/\ timeLeft' = IF isWorking THEN workMinutes' * SecondsPerMinute
                                            ELSE timeLeft
                /\ UNCHANGED << isRunning, isWorking, timerComplete,
                                currentPomodoro, breakMinutes >>)]_vars
    /\ [][SetBreakMinutes
            => (/\ timeLeft' = IF isWorking THEN timeLeft
                                            ELSE breakMinutes' * SecondsPerMinute
                /\ UNCHANGED << isRunning, isWorking, timerComplete,
                                currentPomodoro, workMinutes >>)]_vars
    /\ [][SetPreset
            => (/\ timeLeft' = (IF isWorking THEN workMinutes' ELSE breakMinutes')
                                   * SecondsPerMinute
                /\ UNCHANGED << isRunning, isWorking, timerComplete,
                                currentPomodoro >>)]_vars
    /\ [][(isWorking /\ ~isWorking')
            => timeLeft' = breakMinutes * SecondsPerMinute]_vars
    /\ [][(~isWorking /\ isWorking')
            => timeLeft' = workMinutes * SecondsPerMinute]_vars

\* Paused in the middle of a default Break, the work duration edited: the
\* display still shows the Break's remaining time
C31_Witness ==
    /\ ~isRunning /\ ~isWorking
    /\ breakMinutes = DefaultBreakMinutes
    /\ workMinutes = MaxMinutes
    /\ timeLeft > 0
    /\ timeLeft < breakMinutes * SecondsPerMinute

\* C32: after a tick that does not expire the period, after a resync on
\* regaining visibility before the end, and after a start or resume, the
\* display is the time to the absolute end rounded up to whole seconds, and the
\* end has not moved with the tick or the resync.
C32_DisplayFromAnchor ==
    /\ [][(Tick /\ endTimeRef - now > 0)
            => (/\ endTimeRef' = endTimeRef
                /\ isRunning'
                /\ timeLeft' = Ceil(endTimeRef' - now', MsPerSecond))]_vars
    /\ [][(Reanchor /\ endTimeRef - now > 0)
            => (/\ endTimeRef' = endTimeRef
                /\ timeLeft' = Ceil(endTimeRef' - now', MsPerSecond))]_vars
    /\ [][(~isRunning /\ isRunning')
            => timeLeft' = Ceil(endTimeRef' - now', MsPerSecond)]_vars

\* A late tick in mid-period: the display fell by more than one second per tick
C32_Witness ==
    /\ isRunning /\ ~timerComplete
    /\ now = startTimeRef + BigStep
    /\ now < endTimeRef
    /\ (endTimeRef - now) % MsPerSecond # 0
    /\ timeLeft = Ceil(endTimeRef - now, MsPerSecond)

\* C33: regaining visibility while the timer runs sets the display to the time
\* to the end, rounded up and not below 0, and changes neither the phase nor
\* the pomodoro index nor the anchors nor the interval, also past the end.
C33_ReanchorKeepsPhase ==
    [][Reanchor
         => (/\ timeLeft' = Max(0, Ceil(endTimeRef - now, MsPerSecond))
             /\ UNCHANGED << isRunning, isWorking, timerComplete, currentPomodoro,
                             startTimeRef, endTimeRef, intervalRef,
                             activeIntervals, intervalDue >>)]_vars

\* The page became visible after the end of the period and before the late
\* tick: the display is 0 and the period has not changed
C33_Witness ==
    /\ isRunning /\ ~timerComplete
    /\ timeLeft = 0
    /\ now > endTimeRef
    /\ activeIntervals = 1
    /\ workMinutes >= 1 /\ breakMinutes >= 1

\* C35: Start on a paused, incomplete session anchors the end at now plus the
\* display frozen at the pause, in the same phase and pomodoro; the display did
\* not move while paused.
C35_ResumeAnchorsFrozenRest ==
    /\ [][(ToggleTimer /\ ~isRunning /\ ~timerComplete)
            => (/\ isRunning'
                /\ timeLeft' = timeLeft
                /\ startTimeRef' = now
                /\ endTimeRef' = now + timeLeft * MsPerSecond
                /\ activeIntervals' = 1
                /\ UNCHANGED << isWorking, timerComplete, currentPomodoro >>)]_vars
    /\ [][(ToggleTimer /\ isRunning)
            => (~isRunning' /\ UNCHANGED << isWorking, timerComplete,
                                            currentPomodoro, timeLeft >>)]_vars
    /\ [][(AdvanceCoarse /\ ~isRunning) => UNCHANGED timeLeft]_vars

\* Resumed in the middle of the first Work period after a pause: the end lies
\* later than a full period after the page opened
C35_Witness ==
    /\ isRunning /\ isWorking /\ workPeriods = 1
    /\ startTimeRef = now
    /\ timeLeft > 0
    /\ timeLeft < workMinutes * SecondsPerMinute
    /\ endTimeRef = now + timeLeft * MsPerSecond
    /\ endTimeRef >= workMinutes * MsPerMinute + 2 * BigStep

\* C36: a tick at or after the end of a period that does not complete the
\* session starts the other period with its full duration anchored at the time
\* of the tick, the timer still running with one interval; the pomodoro index
\* grows by one on leaving Work and not on leaving a Break.
C36_ExpiryAnchorsFullPeriod ==
    [][(Tick /\ endTimeRef - now <= 0
             /\ ~(isWorking /\ currentPomodoro + 1 >= totalPomodoros))
         => LET d == IF isWorking THEN breakMinutes ELSE workMinutes
            IN  /\ isWorking' = ~isWorking
                /\ isRunning' /\ ~timerComplete'
                /\ timeLeft' = d * SecondsPerMinute
                /\ startTimeRef' = now
                /\ endTimeRef' = now + d * MsPerMinute
                /\ currentPomodoro' = IF isWorking THEN currentPomodoro + 1
                                                   ELSE currentPomodoro
                /\ activeIntervals' = 1
                /\ intervalDue' = now + TickMs]_vars

\* The second Work period has just begun by a late tick at the end of a Break
C36_Witness ==
    /\ tickLate > 0
    /\ isRunning /\ isWorking
    /\ workPeriods = 2 /\ currentPomodoro = 1
    /\ startTimeRef = now
    /\ endTimeRef = now + workMinutes * MsPerMinute
    /\ timeLeft = workMinutes * SecondsPerMinute

\* C37: after every task at most one interval is alive, the handle is set
\* exactly when one is, and one is alive exactly when the timer runs and the
\* session is not complete.
C37_OneIntervalIffRunning ==
    /\ activeIntervals <= 1
    /\ (intervalRef # 0) <=> (activeIntervals = 1)
    /\ (activeIntervals = 1) <=> (isRunning /\ ~timerComplete)

\* Running in mid-period in the second Work period, one interval alive
C37_Witness ==
    /\ isRunning /\ isWorking /\ ~timerComplete
    /\ workPeriods = 2
    /\ now > startTimeRef
    /\ activeIntervals = 1
    /\ timeLeft < workMinutes * SecondsPerMinute

\* C38: the history holds no id twice and at most twenty items.
C38_HistoryDistinctAndBounded ==
    /\ Len(videoHistory) <= HistoryKeep + 1
    /\ \A i, j \in 1..Len(videoHistory) :
         i # j => videoHistory[i] # videoHistory[j]

\* C34: a tick that finds the wall clock before the start of the period does
\* not make the display grow and changes neither the phase nor the pomodoro
\* index nor the running flag.
C34_BackwardClockClamped ==
    [][(Tick /\ now < startTimeRef)
         => (/\ timeLeft' <= timeLeft
             /\ UNCHANGED << isRunning, isWorking, timerComplete,
                             currentPomodoro >>)]_vars

============================================================================
